---- MODULE Spec2Model ----
(***************************************************************************)
(* TalentFlow: the mock API server (IndexedDB tables, the module-level     *)
(* dataCache, the write-latency/failure simulator, the job reorder         *)
(* handler), the database seeding, and the JobsBoard component that        *)
(* applies reorders and archivals optimistically.                          *)
(*                                                                         *)
(* An async handler is one action per segment between two awaits: the      *)
(* awaited IndexedDB operation takes effect when its continuation runs,    *)
(* together with the synchronous code that follows it.  loadData is two    *)
(* actions, the reads of the tables and the assignment of dataCache, since *)
(* its Promise.all resolves only when the slowest of the reads has.        *)
(***************************************************************************)
EXTENDS Integers, Sequences, FiniteSets, TLC

\* ---------------------------------------------------------------- bounds
\* generateJobs seeds 25 jobs; the model seeds NumSeedJobs.
NumSeedJobs == 3
\* Jobs created through POST /jobs (two, so that creations can overlap).
MaxCreates == 2
\* Requests (fetches with their handlers) that may overlap.
MaxInFlight == 2
\* The requests sent in a behaviour of the specification with fairness.
MaxLiveRequests == 2
\* Runs of seedDatabase.
MaxSeeds == 2
\* Assessments created through POST /assessments/:jobId.
MaxNewAssessments == 1
\* Requests sent and seedings started in a run.
MaxRequests == 3
\* Queries sent in a run of the query specification.
MaxQueries == 1
\* Candidates in the tables of the query specification.
NumQueryCandidates == 3

\* ---------------------------------------------------------- parameters
\* The pageSize of JobsBoard's pagination state, which fetchJobs sends.
DefaultPageSize == 12

\* ------------------------------------------------------------- records
Statuses == {"active", "archived"}
Stages == {"applied", "screen"}
Titles == {"t1", "t2"}

Job(i, o, st) == [id |-> i, order |-> o, status |-> st]
Candidate(i, sg) == [id |-> i, stage |-> sg]
Assessment(i, j, t) == [id |-> i, jobId |-> j, title |-> t]
TimelineEntry(i, c) == [id |-> i, candidateId |-> c]

\* ------------------------------------------------------------- helpers
Range(seq) == {seq[i] : i \in DOMAIN seq}

Ids(S) == {r.id : r \in S}

RECURSIVE ToArray(_)
\* Table.toArray(): every record of the table, in primary-key order.
ToArray(tbl) ==
  IF tbl = {} THEN <<>>
  ELSE LET first == CHOOSE r \in tbl : \A q \in tbl : r.id <= q.id
       IN  <<first>> \o ToArray(tbl \ {first})

\* Table.get(id): the record, as a set of at most one element.
TableGet(tbl, id) == {r \in tbl : r.id = id}

\* Table.put(record): insert, or replace the record with the same key.
TablePut(tbl, rec) == {r \in tbl : r.id # rec.id} \cup {rec}

\* Table.bulkPut(records).
TableBulkPut(tbl, recs) == {r \in tbl : r.id \notin Ids(Range(recs))} \cup Range(recs)

\* Array.findIndex(x => x.id === id); 0 stands for -1.
FindIndex(seq, id) ==
  IF \E i \in DOMAIN seq : seq[i].id = id
  THEN CHOOSE i \in DOMAIN seq : seq[i].id = id /\ \A k \in 1..(i - 1) : seq[k].id # id
  ELSE 0

RECURSIVE Filter(_, _)
Filter(seq, st) ==
  IF seq = <<>> THEN <<>>
  ELSE (IF Head(seq).status = st THEN <<Head(seq)>> ELSE <<>>) \o Filter(Tail(seq), st)

RECURSIVE InsertSorted(_, _, _)
\* x goes after every element that does not sort after it (a stable sort).
InsertSorted(x, seq, dir) ==
  IF seq = <<>> THEN <<x>>
  ELSE IF (IF dir = "asc" THEN Head(seq).order <= x.order ELSE Head(seq).order >= x.order)
       THEN <<Head(seq)>> \o InsertSorted(x, Tail(seq), dir)
       ELSE <<x>> \o seq

RECURSIVE SortByOrder(_, _)
\* jobs.sort((a, b) => order === 'asc' ? a.order - b.order : b.order - a.order)
SortByOrder(seq, dir) ==
  IF seq = <<>> THEN <<>>
  ELSE InsertSorted(seq[Len(seq)], SortByOrder(SubSeq(seq, 1, Len(seq) - 1), dir), dir)

\* Text is a sequence of characters; String.toLowerCase() on one character.
ToLowerCase(ch) == CASE ch = "A" -> "a" [] ch = "B" -> "b" [] OTHER -> ch
Lower(text) == [i \in DOMAIN text |-> ToLowerCase(text[i])]

\* String.includes(sub)
Includes(text, sub) ==
  \E i \in 0..(Len(text) - Len(sub)) : SubSeq(text, i + 1, i + Len(sub)) = sub

\* The title and the tags of a job, and the name and the email of a candidate:
\* no request of the model changes them, so they are functions of the id.
JobTitle(id) ==
  CASE id % 3 = 1 -> <<"A", "b">> [] id % 3 = 2 -> <<"b", "a">> [] OTHER -> <<"a", "a">>
JobTags(id) == IF id % 2 = 0 THEN {<<"B">>} ELSE {}
CandidateName(id) == IF id % 2 = 1 THEN <<"A", "b">> ELSE <<"a", "a">>
CandidateEmail(id) == IF id % 3 = 0 THEN <<"b">> ELSE <<"a">>
\* The rank of a candidate's createdAt among the candidates' createdAt values.
CandidateCreatedAt(id) == id

\* job.title.toLowerCase().includes(search.toLowerCase()) || job.tags.some(...)
JobMatches(job, search) ==
  \/ Includes(Lower(JobTitle(job.id)), Lower(search))
  \/ \E tag \in JobTags(job.id) : Includes(Lower(tag), Lower(search))

\* candidate.name...includes(search...) || candidate.email...includes(search...)
CandidateMatches(candidate, search) ==
  \/ Includes(Lower(CandidateName(candidate.id)), Lower(search))
  \/ Includes(Lower(CandidateEmail(candidate.id)), Lower(search))

RECURSIVE FilterJobsBySearch(_, _)
FilterJobsBySearch(seq, search) ==
  IF seq = <<>> THEN <<>>
  ELSE (IF JobMatches(Head(seq), search) THEN <<Head(seq)>> ELSE <<>>)
       \o FilterJobsBySearch(Tail(seq), search)

RECURSIVE FilterCandidatesBySearch(_, _)
FilterCandidatesBySearch(seq, search) ==
  IF seq = <<>> THEN <<>>
  ELSE (IF CandidateMatches(Head(seq), search) THEN <<Head(seq)>> ELSE <<>>)
       \o FilterCandidatesBySearch(Tail(seq), search)

RECURSIVE FilterByStage(_, _)
FilterByStage(seq, sg) ==
  IF seq = <<>> THEN <<>>
  ELSE (IF Head(seq).stage = sg THEN <<Head(seq)>> ELSE <<>>) \o FilterByStage(Tail(seq), sg)

RECURSIVE InsertByCreatedAt(_, _)
InsertByCreatedAt(x, seq) ==
  IF seq = <<>> THEN <<x>>
  ELSE IF CandidateCreatedAt(Head(seq).id) >= CandidateCreatedAt(x.id)
       THEN <<Head(seq)>> \o InsertByCreatedAt(x, Tail(seq))
       ELSE <<x>> \o seq

RECURSIVE SortByCreatedAt(_)
\* candidates.sort((a, b) => b.createdAt - a.createdAt)
SortByCreatedAt(seq) ==
  IF seq = <<>> THEN <<>>
  ELSE InsertByCreatedAt(seq[Len(seq)], SortByCreatedAt(SubSeq(seq, 1, Len(seq) - 1)))

\* A faulty query: the status filter is applied to the unsearched list.
JobsMatchingLastWins(cachedJobs, search, qStatus, qOrder) ==
  LET sorted == SortByOrder(cachedJobs, qOrder)
      searched == IF search # <<>> THEN FilterJobsBySearch(sorted, search) ELSE sorted
  IN  IF qStatus # "" THEN Filter(sorted, qStatus) ELSE searched

\* GET /jobs: copy, sort by order, filter by search, filter by status.
JobsMatching(cachedJobs, search, qStatus, qOrder) ==
  LET sorted == SortByOrder(cachedJobs, qOrder)
      searched == IF search # <<>> THEN FilterJobsBySearch(sorted, search) ELSE sorted
  IN  IF qStatus # "" THEN Filter(searched, qStatus) ELSE searched

\* GET /jobs: copy, sort by order, filter by status.
QueryJobs(cachedJobs, qStatus, qOrder) == JobsMatching(cachedJobs, <<>>, qStatus, qOrder)

\* GET /candidates: copy, sort by createdAt, filter by search, filter by stage.
CandidatesMatching(cachedCandidates, search, stage) ==
  LET sorted == SortByCreatedAt(cachedCandidates)
      searched == IF search # <<>> THEN FilterCandidatesBySearch(sorted, search) ELSE sorted
  IN  IF stage # "" THEN FilterByStage(searched, stage) ELSE searched

\* A faulty slice: the element at end is taken too.
SliceInclusive(seq, start, end) ==
  LET rel(k) == IF k < 0 THEN (IF Len(seq) + k > 0 THEN Len(seq) + k ELSE 0)
                ELSE (IF k < Len(seq) THEN k ELSE Len(seq))
  IN  SubSeq(seq, rel(start) + 1, rel(end + 1))

\* Array.slice(start, end): a negative index counts from the end.
Slice(seq, start, end) ==
  LET rel(k) == IF k < 0 THEN (IF Len(seq) + k > 0 THEN Len(seq) + k ELSE 0)
                ELSE (IF k < Len(seq) THEN k ELSE Len(seq))
  IN  SubSeq(seq, rel(start) + 1, rel(end))

\* Math.ceil(total / pageSizeNum) as the response carries it: Infinity and NaN
\* (pageSizeNum = 0) are null in JSON.
CeilDiv(total, pageSizeNum) ==
  IF pageSizeNum = 0 THEN "null"
  ELSE IF pageSizeNum > 0 THEN (total + pageSizeNum - 1) \div pageSizeNum
  ELSE -(total \div (-pageSizeNum))

\* A faulty pagination: hasNext is true on a full last page.
PaginateHasNextInclusive(items, pageNum, pageSizeNum) ==
  LET total == Len(items)
      startIndex == (pageNum - 1) * pageSizeNum
  IN  [data |-> Slice(items, startIndex, startIndex + pageSizeNum),
       pagination |-> [page |-> pageNum, pageSize |-> pageSizeNum, total |-> total,
                       totalPages |-> CeilDiv(total, pageSizeNum),
                       hasNext |-> startIndex + pageSizeNum <= total,
                       hasPrev |-> pageNum > 1]]

\* The pagination of GET /jobs and of GET /candidates.
Paginate(items, pageNum, pageSizeNum) ==
  LET total == Len(items)
      startIndex == (pageNum - 1) * pageSizeNum
  IN  [data |-> Slice(items, startIndex, startIndex + pageSizeNum),
       pagination |-> [page |-> pageNum, pageSize |-> pageSizeNum, total |-> total,
                       totalPages |-> CeilDiv(total, pageSizeNum),
                       hasNext |-> startIndex + pageSizeNum < total,
                       hasPrev |-> pageNum > 1]]

\* What GET /jobs answers from the data loadData returned.
JobsResponse(cachedJobs, search, qStatus, qOrder, page, pageSize) ==
  Paginate(JobsMatching(cachedJobs, search, qStatus, qOrder), page, pageSize)

\* What GET /candidates answers from the data loadData returned.
CandidatesResponse(cachedCandidates, search, stage, page, pageSize) ==
  Paginate(CandidatesMatching(cachedCandidates, search, stage), page, pageSize)

\* The jobNumber of a job: predefinedJobNumbers[i], or the number its form gave.
JobNumber(id) == id

\* GET /jobs/:jobNumber: data.jobs.find(j => j.jobNumber === jobNumber), or null.
JobByNumber(cachedJobs, jobNumber) ==
  LET found == {i \in DOMAIN cachedJobs : JobNumber(cachedJobs[i].id) = jobNumber}
  IN  IF found = {} THEN <<>>
      ELSE <<cachedJobs[CHOOSE i \in found : \A j \in found : i <= j]>>

\* GET /assessments/:jobId: data.assessments.find(a => a.jobId === jobId), or null.
AssessmentOfJob(cachedAssessments, jobId) ==
  LET found == {i \in DOMAIN cachedAssessments : cachedAssessments[i].jobId = jobId}
  IN  IF found = {} THEN <<>>
      ELSE <<cachedAssessments[CHOOSE i \in found : \A j \in found : i <= j]>>

RECURSIVE InsertNewestFirst(_, _)
\* createdAt is new Date() of the add: a later entry has the larger id.
InsertNewestFirst(x, seq) ==
  IF seq = <<>> THEN <<x>>
  ELSE IF Head(seq).id >= x.id THEN <<Head(seq)>> \o InsertNewestFirst(x, Tail(seq))
       ELSE <<x>> \o seq

RECURSIVE TimelineOf(_, _)
\* GET /candidates/:id/timeline: data.timeline.filter(...).sort(newest first).
TimelineOf(cachedTimeline, candidateId) ==
  IF cachedTimeline = <<>> THEN <<>>
  ELSE LET last == cachedTimeline[Len(cachedTimeline)]
           before == TimelineOf(SubSeq(cachedTimeline, 1, Len(cachedTimeline) - 1), candidateId)
       IN  IF last.candidateId = candidateId THEN InsertNewestFirst(last, before) ELSE before

\* arrayMove(jobs, oldIndex, newIndex): take the element out, put it in at newIndex.
ArrayMove(seq, from, to) ==
  LET without == SubSeq(seq, 1, from - 1) \o SubSeq(seq, from + 1, Len(seq))
  IN  SubSeq(without, 1, to - 1) \o <<seq[from]>> \o SubSeq(without, to, Len(without))

\* prev.map(job => job.id === jobId ? { ...job, status } : job)
MapStatus(seq, jobId, st) ==
  [i \in DOMAIN seq |-> IF seq[i].id = jobId THEN [seq[i] EXCEPT !.status = st] ELSE seq[i]]

\* ---------------------------------------------------- reorder handler
\* A faulty update loop: moving down, the job at toOrder is not shifted.
NewOrderExclusive(job, jobId, fromOrder, toOrder) ==
  IF job.id = jobId THEN toOrder
  ELSE IF fromOrder < toOrder
       THEN (IF job.order > fromOrder /\ job.order < toOrder THEN job.order - 1 ELSE job.order)
       ELSE (IF job.order >= toOrder /\ job.order < fromOrder THEN job.order + 1 ELSE job.order)

\* A faulty update loop: moving up, the jobs in between are shifted up as well.
NewOrderSameShift(job, jobId, fromOrder, toOrder) ==
  IF job.id = jobId THEN toOrder
  ELSE IF fromOrder < toOrder
       THEN (IF job.order > fromOrder /\ job.order <= toOrder THEN job.order - 1 ELSE job.order)
       ELSE (IF job.order >= toOrder /\ job.order < fromOrder THEN job.order - 1 ELSE job.order)

\* POST /jobs/:id/reorder, the body of the update loop for one job.
NewOrder(job, jobId, fromOrder, toOrder) ==
  IF job.id = jobId THEN toOrder
  ELSE IF fromOrder < toOrder
       THEN (IF job.order > fromOrder /\ job.order <= toOrder THEN job.order - 1 ELSE job.order)
       ELSE (IF job.order >= toOrder /\ job.order < fromOrder THEN job.order + 1 ELSE job.order)

RECURSIVE ReorderUpdates(_, _, _, _)
\* The updates array: the records whose order changes, with the new order.
ReorderUpdates(arr, jobId, fromOrder, toOrder) ==
  IF arr = <<>> THEN <<>>
  ELSE LET job == Head(arr)
           newOrder == NewOrder(job, jobId, fromOrder, toOrder)
       IN  (IF newOrder # job.order THEN <<[job EXCEPT !.order = newOrder]>> ELSE <<>>)
           \o ReorderUpdates(Tail(arr), jobId, fromOrder, toOrder)

\* --------------------------------------------------------------- state
VARIABLES
  tblJobs,     \* db.jobs
  tblCands,    \* db.candidates
  tblAssess,   \* db.assessments
  tblTimeline, \* db.timeline
  dataCache,   \* the module-level cache; loaded = FALSE stands for null
  reqs,        \* the requests in flight, each with its handler's position
  jobs,        \* JobsBoard's jobs state
  pagination,  \* JobsBoard's pagination state
  seedPc,      \* the position of seedDatabase
  seedGen,     \* runs of seedDatabase so far
  created,     \* POST /jobs requests sent and new assessments built so far
  sent         \* requests sent and seedings started so far

vars == <<tblJobs, tblCands, tblAssess, tblTimeline, dataCache, reqs, jobs, pagination,
         seedPc, seedGen, created, sent>>
tables == <<tblJobs, tblCands, tblAssess, tblTimeline>>
seedVars == <<seedPc, seedGen>>
\* What no handler step changes.
rest == <<seedPc, seedGen, sent>>

Slots == 1..MaxInFlight

NullCache ==
  [loaded |-> FALSE, gen |-> 0, jobs |-> <<>>, candidates |-> <<>>, assessments |-> <<>>,
   timeline |-> <<>>]

\* useState({ page: 1, pageSize: 12, total: 0, ... }) of JobsBoard.
InitialPagination ==
  [page |-> 1, pageSize |-> DefaultPageSize, total |-> 0, totalPages |-> 0,
   hasNext |-> FALSE, hasPrev |-> FALSE]

NoReq ==
  [kind |-> "none", pc |-> "idle", op |-> "none", id |-> 0, fromOrder |-> 0, toOrder |-> 0,
   updates |-> "", qStatus |-> "", qOrder |-> "asc", snap |-> <<>>, loc |-> <<>>,
   locCands |-> <<>>, locAssess |-> <<>>, cacheGen |-> 0, result |-> "none", data |-> <<>>,
   locTimeline |-> <<>>, qSearch |-> <<>>, qPage |-> 1, qPageSize |-> DefaultPageSize,
   meta |-> InitialPagination, settled |-> "none", newId |-> 0]

\* The records generateJobs, generateCandidates and generateAssessments produce in
\* the g-th run of seedDatabase: fresh ids, orders 1..NumSeedJobs (generateJobs
\* draws each status; the seeded jobs of the model are active).
SeedJobs(g) == {Job((g - 1) * NumSeedJobs + i, i, "active") : i \in 1..NumSeedJobs}
SeedCandidates(g) == {Candidate(g, "applied")}
SeedAssessments(g) == {Assessment(g, (g - 1) * NumSeedJobs + 1, "t1")}
\* The timeline entries generateTimeline writes for the candidate of the g-th run.
SeedApplicationEntry(g) == TimelineEntry(2 * g - 1, g)
SeedNoteEntry(g) == TimelineEntry(2 * g, g)

\* generateId() of the k-th created job / assessment.
NewJobId(k) == MaxSeeds * NumSeedJobs + k
NewAssessmentId(k) == MaxSeeds + k

\* First start: the database is empty and nothing is cached.
Init ==
  /\ tblJobs = {} /\ tblCands = {} /\ tblAssess = {} /\ tblTimeline = {}
  /\ dataCache = NullCache
  /\ reqs = [s \in Slots |-> NoReq]
  /\ jobs = <<>> /\ pagination = InitialPagination
  /\ seedPc = "idle" /\ seedGen = 0
  /\ created = [jobs |-> 0, assess |-> 0]
  /\ sent = 0

\* A later start: an earlier session has seeded the database.
InitSeeded ==
  /\ tblJobs = SeedJobs(1) /\ tblCands = SeedCandidates(1) /\ tblAssess = SeedAssessments(1)
  /\ tblTimeline = {SeedApplicationEntry(1)}
  /\ dataCache = NullCache
  /\ reqs = [s \in Slots |-> NoReq]
  /\ jobs = <<>> /\ pagination = InitialPagination
  /\ seedPc = "idle" /\ seedGen = 1
  /\ created = [jobs |-> 0, assess |-> 0]
  /\ sent = 0

Free(s) == reqs[s].kind = "none"
Quiescent == (\A s \in Slots : Free(s)) /\ seedPc = "idle"
\* The slot a new request takes: the lowest free one.
Takes(s) == Free(s) /\ \A t \in 1..(s - 1) : ~Free(t)

\* ------------------------------------------------------------ loadData
\* loadData() when the cache is null: the tables are read (Promise.all of toArray).
LoadRead(s) ==
  /\ reqs[s].pc = "loadRead"
  /\ reqs' = [reqs EXCEPT ![s].pc = "loadDone",
                          ![s].loc = ToArray(tblJobs),
                          ![s].locCands = ToArray(tblCands),
                          ![s].locAssess = ToArray(tblAssess),
                          ![s].locTimeline = ToArray(tblTimeline)]
  /\ UNCHANGED <<tables, dataCache, jobs, pagination, rest, created>>

\* What the handler does with the data loadData returned, up to its next await.
AfterLoad(r, data) ==
  CASE r.kind = "getJobs" ->
         LET response == JobsResponse(data.jobs, r.qSearch, r.qStatus, r.qOrder,
                                      r.qPage, r.qPageSize)
         IN  [r EXCEPT !.pc = "resp", !.result = "ok",
                       !.data = response.data, !.meta = response.pagination]
    [] r.kind = "getCandidates" ->
         LET response == CandidatesResponse(data.candidates, r.qSearch, r.qStatus,
                                            r.qPage, r.qPageSize)
         IN  [r EXCEPT !.pc = "resp", !.result = "ok",
                       !.data = response.data, !.meta = response.pagination]
    [] r.kind = "getJob" ->
         [r EXCEPT !.pc = "resp", !.result = "ok", !.data = JobByNumber(data.jobs, r.id)]
    [] r.kind = "getTimeline" ->
         [r EXCEPT !.pc = "resp", !.result = "ok", !.data = TimelineOf(data.timeline, r.id)]
    [] r.kind = "getAssessment" ->
         [r EXCEPT !.pc = "resp", !.result = "ok",
                   !.data = AssessmentOfJob(data.assessments, r.id)]
    [] OTHER -> \* POST /jobs: newJob is built, db.jobs.add is awaited
         [r EXCEPT !.pc = "add",
                   !.loc = <<Job(r.id, Len(data.jobs) + 1, r.updates)>>]

\* loadData(): every read has resolved; dataCache is assigned and returned.
LoadDone(s) ==
  /\ reqs[s].pc = "loadDone"
  /\ LET data == [loaded |-> TRUE, gen |-> dataCache.gen + 1, jobs |-> reqs[s].loc,
                  candidates |-> reqs[s].locCands, assessments |-> reqs[s].locAssess,
                  timeline |-> reqs[s].locTimeline]
     IN  /\ dataCache' = data
         /\ reqs' = [reqs EXCEPT ![s] = AfterLoad([reqs[s] EXCEPT !.locCands = <<>>,
                                                                  !.locAssess = <<>>,
                                                                  !.locTimeline = <<>>], data)]
  /\ UNCHANGED <<tables, jobs, pagination, rest, created>>

\* What loadData() returns from its catch: four empty collections.
EmptyData == [jobs |-> <<>>, candidates |-> <<>>, assessments |-> <<>>, timeline |-> <<>>]

\* A faulty loadData: the rejection of a read is thrown on to the handler, whose
\* catch answers 500.
LoadFailRethrows(s) ==
  /\ reqs[s].pc = "loadRead"
  /\ reqs' = [reqs EXCEPT ![s].pc = "resp", ![s].result = "dberr"]
  /\ UNCHANGED <<tables, dataCache, jobs, pagination, rest, created>>

\* loadData() when a read of the tables rejects: the catch returns the empty
\* collections, dataCache stays null, and the handler goes on with them.
LoadFail(s) ==
  /\ reqs[s].pc = "loadRead"
  /\ reqs' = [reqs EXCEPT ![s] = AfterLoad(reqs[s], EmptyData)]
  /\ UNCHANGED <<tables, dataCache, jobs, pagination, rest, created>>

\* A handler calls loadData(): the cached data at once, or the reads are started.
CallLoadData(r) ==
  IF dataCache.loaded THEN AfterLoad(r, dataCache) ELSE [r EXCEPT !.pc = "loadRead"]

\* ------------------------------------------------- JobsBoard (client)
\* fetchJobs: GET /jobs with the URL's filters; the handler starts with loadData().
FetchJobs(s, qs, qo) ==
  /\ Takes(s)
  /\ sent < MaxRequests /\ sent' = sent + 1
  /\ reqs' = [reqs EXCEPT ![s] = CallLoadData([NoReq EXCEPT !.kind = "getJobs", !.op = "fetch",
                                                          !.qStatus = qs, !.qOrder = qo])]
  /\ UNCHANGED <<tables, dataCache, jobs, pagination, seedVars, created>>

\* A faulty handleDragEnd: a drop of the card on itself is sent as a reorder.
HandleDragEndNoGuard(s, activeId, overId) ==
  /\ Takes(s)
  /\ sent < MaxRequests /\ sent' = sent + 1
  /\ LET oldIndex == FindIndex(jobs, activeId)
         newIndex == FindIndex(jobs, overId)
     IN  /\ oldIndex # 0 /\ newIndex # 0
         /\ jobs' = ArrayMove(jobs, oldIndex, newIndex)
         /\ reqs' = [reqs EXCEPT ![s] = [NoReq EXCEPT !.kind = "reorderJob", !.op = "drag",
                                                       !.pc = "sim", !.id = activeId,
                                                       !.fromOrder = jobs[oldIndex].order,
                                                       !.toOrder = jobs[newIndex].order,
                                                       !.snap = jobs]]
  /\ UNCHANGED <<tables, dataCache, pagination, seedVars, created>>

\* A faulty handleDragEnd: the list kept for the rollback is the moved list.
HandleDragEndKeepsMoved(s, activeId, overId) ==
  /\ Takes(s)
  /\ sent < MaxRequests /\ sent' = sent + 1
  /\ activeId # overId
  /\ LET oldIndex == FindIndex(jobs, activeId)
         newIndex == FindIndex(jobs, overId)
     IN  /\ oldIndex # 0 /\ newIndex # 0
         /\ jobs' = ArrayMove(jobs, oldIndex, newIndex)
         /\ reqs' = [reqs EXCEPT ![s] = [NoReq EXCEPT !.kind = "reorderJob", !.op = "drag",
                                                       !.pc = "sim", !.id = activeId,
                                                       !.fromOrder = jobs[oldIndex].order,
                                                       !.toOrder = jobs[newIndex].order,
                                                       !.snap = jobs']]
  /\ UNCHANGED <<tables, dataCache, pagination, seedVars, created>>

\* handleDragEnd(active, over): the closure's jobs is kept, the moved list is shown,
\* and the reorder is sent with the two order values of the closure's jobs.
HandleDragEnd(s, activeId, overId) ==
  /\ Takes(s)
  /\ sent < MaxRequests /\ sent' = sent + 1
  /\ activeId # overId
  /\ LET oldIndex == FindIndex(jobs, activeId)
         newIndex == FindIndex(jobs, overId)
     IN  /\ oldIndex # 0 /\ newIndex # 0
         /\ jobs' = ArrayMove(jobs, oldIndex, newIndex)
         /\ reqs' = [reqs EXCEPT ![s] = [NoReq EXCEPT !.kind = "reorderJob", !.op = "drag",
                                                       !.pc = "sim", !.id = activeId,
                                                       !.fromOrder = jobs[oldIndex].order,
                                                       !.toOrder = jobs[newIndex].order,
                                                       !.snap = jobs]]
  /\ UNCHANGED <<tables, dataCache, pagination, seedVars, created>>

\* handleArchive / handleUnarchive(jobId), called by the job's card with the
\* status the card does not show.
HandleArchive(s, jobId) ==
  /\ Takes(s)
  /\ sent < MaxRequests /\ sent' = sent + 1
  /\ \E i \in DOMAIN jobs :
       /\ jobs[i].id = jobId
       /\ LET st == IF jobs[i].status = "active" THEN "archived" ELSE "active"
          IN  /\ jobs' = MapStatus(jobs, jobId, st)
              /\ reqs' = [reqs EXCEPT ![s] = [NoReq EXCEPT !.kind = "updateJob", !.op = "archive",
                                                            !.pc = "sim", !.id = jobId,
                                                            !.updates = st, !.snap = jobs]]
  /\ UNCHANGED <<tables, dataCache, pagination, seedVars, created>>

\* handleJobSave with no editingJob: POST /jobs.
HandleJobCreate(s, st) ==
  /\ Takes(s)
  /\ sent < MaxRequests /\ sent' = sent + 1
  /\ created.jobs < MaxCreates
  /\ created' = [created EXCEPT !.jobs = @ + 1]
  /\ reqs' = [reqs EXCEPT ![s] = [NoReq EXCEPT !.kind = "createJob", !.op = "save", !.pc = "sim",
                                                !.id = NewJobId(created.jobs + 1),
                                                !.updates = st]]
  /\ UNCHANGED <<tables, dataCache, jobs, pagination, seedVars>>

\* handleJobSave with an editingJob: PUT /jobs/:id with the form's fields.
HandleJobEdit(s, jobId, st) ==
  /\ Takes(s)
  /\ sent < MaxRequests /\ sent' = sent + 1
  /\ jobId \in Ids(Range(jobs))
  /\ reqs' = [reqs EXCEPT ![s] = [NoReq EXCEPT !.kind = "updateJob", !.op = "save", !.pc = "sim",
                                                !.id = jobId, !.updates = st]]
  /\ UNCHANGED <<tables, dataCache, jobs, pagination, seedVars, created>>

\* ---------------------------------------------------- other clients
\* CandidatesApi.updateCandidate(candidate.id, { stage }); CandidateProfile reads
\* the candidate from db.candidates itself.
\* JobsApi.updateJob(jobId, updates) with a payload that may name an id.
UpdateJobWith(s, jobId, st, newId) ==
  /\ Takes(s)
  /\ sent < MaxRequests /\ sent' = sent + 1
  /\ reqs' = [reqs EXCEPT ![s] = [NoReq EXCEPT !.kind = "updateJob", !.op = "plain", !.pc = "sim",
                                                !.id = jobId, !.updates = st, !.newId = newId]]
  /\ UNCHANGED <<tables, dataCache, jobs, pagination, seedVars, created>>

\* CandidatesApi.updateCandidate(candidateId, updates) with such a payload.
UpdateCandidateWith(s, candId, sg, newId) ==
  /\ Takes(s)
  /\ sent < MaxRequests /\ sent' = sent + 1
  /\ reqs' = [reqs EXCEPT ![s] = [NoReq EXCEPT !.kind = "updateCandidate", !.op = "plain",
                                                !.pc = "sim", !.id = candId, !.updates = sg,
                                                !.newId = newId]]
  /\ UNCHANGED <<tables, dataCache, jobs, pagination, seedVars, created>>

UpdateCandidate(s, candId, sg) ==
  /\ Takes(s)
  /\ sent < MaxRequests /\ sent' = sent + 1
  /\ candId \in Ids(tblCands)
  /\ reqs' = [reqs EXCEPT ![s] = [NoReq EXCEPT !.kind = "updateCandidate", !.op = "plain",
                                                !.pc = "sim", !.id = candId, !.updates = sg]]
  /\ UNCHANGED <<tables, dataCache, jobs, pagination, seedVars, created>>

\* AssessmentsApi.saveAssessment(selectedJobId, { title, ... }).
SaveAssessment(s, jobId, title) ==
  /\ Takes(s)
  /\ sent < MaxRequests /\ sent' = sent + 1
  /\ jobId \in Ids(tblJobs)
  /\ \/ \E a \in tblAssess : a.jobId = jobId
     \/ created.assess + Cardinality({t \in Slots : reqs[t].kind = "saveAssessment"})
          < MaxNewAssessments
  /\ reqs' = [reqs EXCEPT ![s] = [NoReq EXCEPT !.kind = "saveAssessment", !.op = "plain",
                                                !.pc = "sim", !.id = jobId, !.updates = title]]
  /\ UNCHANGED <<tables, dataCache, jobs, pagination, seedVars, created>>

\* ------------------------------------------------------- read requests
\* fetchJobs of JobsBoard with the search, status, order and page of the URL and
\* the pageSize of the pagination state.
FetchJobsAt(s, search, qs, qo, page) ==
  /\ Takes(s)
  /\ sent < MaxQueries /\ sent' = sent + 1
  /\ reqs' = [reqs EXCEPT ![s] = CallLoadData([NoReq EXCEPT !.kind = "getJobs", !.op = "fetch",
                                    !.qSearch = search, !.qStatus = qs, !.qOrder = qo,
                                    !.qPage = page, !.qPageSize = pagination.pageSize])]
  /\ UNCHANGED <<tables, dataCache, jobs, pagination, seedVars, created>>

\* A faulty GET /jobs: the cached array is sorted, not a copy of it.
GetJobsSortInPlace(s, search, qs, qo, page, pageSize) ==
  /\ Takes(s)
  /\ sent < MaxQueries /\ sent' = sent + 1
  /\ reqs' = [reqs EXCEPT ![s] = CallLoadData([NoReq EXCEPT !.kind = "getJobs", !.op = "plain",
                                    !.qSearch = search, !.qStatus = qs, !.qOrder = qo,
                                    !.qPage = page, !.qPageSize = pageSize])]
  /\ dataCache' = [dataCache EXCEPT !.jobs = SortByOrder(@, qo)]
  /\ UNCHANGED <<tables, jobs, pagination, seedVars, created>>

\* JobsApi.getJobs(params): every parameter goes into the query string.
GetJobs(s, search, qs, qo, page, pageSize) ==
  /\ Takes(s)
  /\ sent < MaxQueries /\ sent' = sent + 1
  /\ reqs' = [reqs EXCEPT ![s] = CallLoadData([NoReq EXCEPT !.kind = "getJobs", !.op = "plain",
                                    !.qSearch = search, !.qStatus = qs, !.qOrder = qo,
                                    !.qPage = page, !.qPageSize = pageSize])]
  /\ UNCHANGED <<tables, dataCache, jobs, pagination, seedVars, created>>

\* CandidatesApi.getCandidates(params).
GetCandidates(s, search, stage, page, pageSize) ==
  /\ Takes(s)
  /\ sent < MaxQueries /\ sent' = sent + 1
  /\ reqs' = [reqs EXCEPT ![s] = CallLoadData([NoReq EXCEPT !.kind = "getCandidates",
                                    !.op = "plain", !.qSearch = search, !.qStatus = stage,
                                    !.qPage = page, !.qPageSize = pageSize])]
  /\ UNCHANGED <<tables, dataCache, jobs, pagination, seedVars, created>>

\* JobsApi.getJobByNumber(jobNumber), CandidatesApi.getCandidateTimeline(candidateId)
\* and AssessmentsApi.getAssessment(jobId): GET with the key in the path.
GetByKey(s, kind, key) ==
  /\ Takes(s)
  /\ sent < MaxQueries /\ sent' = sent + 1
  /\ reqs' = [reqs EXCEPT ![s] = CallLoadData([NoReq EXCEPT !.kind = kind, !.op = "plain",
                                                            !.id = key])]
  /\ UNCHANGED <<tables, dataCache, jobs, pagination, seedVars, created>>

GetJobByNumber(s, jobNumber) == GetByKey(s, "getJob", jobNumber)
GetCandidateTimeline(s, candidateId) == GetByKey(s, "getTimeline", candidateId)
GetAssessment(s, jobId) == GetByKey(s, "getAssessment", jobId)

\* JobsApi.reorderJob(jobId, fromOrder, toOrder): POST /jobs/:id/reorder with the
\* id in the path and the two orders in the body.
ReorderJob(s, jobId, fromOrder, toOrder) ==
  /\ Takes(s)
  /\ sent < MaxRequests /\ sent' = sent + 1
  /\ reqs' = [reqs EXCEPT ![s] = [NoReq EXCEPT !.kind = "reorderJob", !.op = "plain",
                                                !.pc = "sim", !.id = jobId,
                                                !.fromOrder = fromOrder, !.toOrder = toOrder]]
  /\ UNCHANGED <<tables, dataCache, jobs, pagination, seedVars, created>>

\* ------------------------------------------------------ write handlers
\* A faulty handler: the cache is dropped before the failure is drawn.
SimulateFailLate(s) ==
  /\ reqs[s].pc = "sim"
  /\ reqs' = [reqs EXCEPT ![s].pc = "resp", ![s].result = "simerr"]
  /\ dataCache' = NullCache
  /\ UNCHANGED <<tables, jobs, pagination, rest, created>>

\* simulateWriteOperation() throws: the handler's catch answers 500.
SimulateFail(s) ==
  /\ reqs[s].pc = "sim"
  /\ reqs' = [reqs EXCEPT ![s].pc = "resp", ![s].result = "simerr"]
  /\ UNCHANGED <<tables, dataCache, jobs, pagination, rest, created>>

\* A faulty simulateWriteOperation: the promise of the latency is never resolved.
SimulateNeverResolves(s) ==
  /\ reqs[s].pc = "sim"
  /\ reqs' = [reqs EXCEPT ![s].pc = "latency"]
  /\ UNCHANGED <<tables, dataCache, jobs, pagination, rest, created>>

\* simulateWriteOperation() returns: the handler runs to its next await.
SimulatePass(s) ==
  /\ reqs[s].pc = "sim"
  /\ reqs' = [reqs EXCEPT ![s] =
       CASE reqs[s].kind = "createJob" -> CallLoadData(reqs[s])
         [] reqs[s].kind \in {"updateJob", "updateCandidate"} -> [reqs[s] EXCEPT !.pc = "get"]
         [] reqs[s].kind = "reorderJob" -> [reqs[s] EXCEPT !.pc = "toArray"]
         [] OTHER -> [reqs[s] EXCEPT !.pc = "first"]]
  /\ UNCHANGED <<tables, dataCache, jobs, pagination, rest, created>>

\* The cache update of a PUT: the entry with the id is replaced when there is one.
CacheReplace(seq, id, rec) ==
  LET index == FindIndex(seq, id)
  IN  IF index # 0 THEN [seq EXCEPT ![index] = rec] ELSE seq

\* POST /jobs: db.jobs.add(newJob) has resolved; the cache gets the job.
JobAdd(s) ==
  /\ reqs[s].pc = "add"
  /\ LET newJob == reqs[s].loc[1]
     IN  /\ tblJobs' = tblJobs \cup {newJob}
         /\ dataCache' = IF dataCache.loaded
                         THEN [dataCache EXCEPT !.jobs = Append(@, newJob)]
                         ELSE dataCache
  /\ reqs' = [reqs EXCEPT ![s].pc = "resp", ![s].result = "ok", ![s].loc = <<>>]
  /\ UNCHANGED <<tblCands, tblAssess, tblTimeline, jobs, pagination, rest, created>>

\* The id of { ...record, ...updates }: the payload's id when it has one (0: none).
Spread(id, newId) == IF newId # 0 THEN newId ELSE id

\* PUT /jobs/:id and PUT /candidates/:id: db.<table>.get(id) has resolved.
RecordGet(s) ==
  /\ reqs[s].pc = "get"
  /\ LET tbl == IF reqs[s].kind = "updateJob" THEN tblJobs ELSE tblCands
         found == TableGet(tbl, reqs[s].id)
     IN  reqs' = [reqs EXCEPT ![s] =
           IF found = {}
           THEN [reqs[s] EXCEPT !.pc = "resp", !.result = "notfound"]
           ELSE LET rec == CHOOSE r \in found : TRUE
                IN  [reqs[s] EXCEPT !.pc = "put",
                       !.loc = <<IF reqs[s].kind = "updateJob"
                                 THEN [rec EXCEPT !.status = reqs[s].updates,
                                                  !.id = Spread(@, reqs[s].newId)]
                                 ELSE [rec EXCEPT !.stage = reqs[s].updates,
                                                  !.id = Spread(@, reqs[s].newId)]>>]]
  /\ UNCHANGED <<tables, dataCache, jobs, pagination, rest, created>>

\* A faulty PUT /jobs/:id: the job written gives up its rank.
JobPutDropRank(s) ==
  /\ reqs[s].pc = "put" /\ reqs[s].kind = "updateJob"
  /\ tblJobs' = TablePut(tblJobs, [reqs[s].loc[1] EXCEPT !.order = 0])
  /\ dataCache' = IF dataCache.loaded
                  THEN [dataCache EXCEPT !.jobs = CacheReplace(@, reqs[s].id, reqs[s].loc[1])]
                  ELSE dataCache
  /\ reqs' = [reqs EXCEPT ![s].pc = "resp", ![s].result = "ok", ![s].loc = <<>>]
  /\ UNCHANGED <<tblCands, tblAssess, tblTimeline, jobs, pagination, rest, created>>

\* PUT /jobs/:id: db.jobs.put(updatedJob) has resolved; the cache is updated.
JobPut(s) ==
  /\ reqs[s].pc = "put" /\ reqs[s].kind = "updateJob"
  /\ tblJobs' = TablePut(tblJobs, reqs[s].loc[1])
  /\ dataCache' = IF dataCache.loaded
                  THEN [dataCache EXCEPT !.jobs = CacheReplace(@, reqs[s].id, reqs[s].loc[1])]
                  ELSE dataCache
  /\ reqs' = [reqs EXCEPT ![s].pc = "resp", ![s].result = "ok", ![s].loc = <<>>]
  /\ UNCHANGED <<tblCands, tblAssess, tblTimeline, jobs, pagination, rest, created>>

\* PUT /candidates/:id: db.candidates.put(updatedCandidate) has resolved.
CandidatePut(s) ==
  /\ reqs[s].pc = "put" /\ reqs[s].kind = "updateCandidate"
  /\ tblCands' = TablePut(tblCands, reqs[s].loc[1])
  /\ dataCache' = IF dataCache.loaded
                  THEN [dataCache EXCEPT !.candidates = CacheReplace(@, reqs[s].id, reqs[s].loc[1])]
                  ELSE dataCache
  /\ reqs' = [reqs EXCEPT ![s].pc = "resp", ![s].result = "ok", ![s].loc = <<>>]
  /\ UNCHANGED <<tblJobs, tblAssess, tblTimeline, jobs, pagination, rest, created>>

\* POST /assessments/:jobId: db.assessments.where('jobId').equals(jobId).first() has
\* resolved; the record to put, or the new record to add, is built.
AssessmentFirst(s) ==
  /\ reqs[s].pc = "first"
  /\ LET existing == {a \in tblAssess : a.jobId = reqs[s].id}
     IN  IF existing # {}
         THEN LET existingAssessment == CHOOSE a \in existing : \A b \in existing : a.id <= b.id
              IN  /\ reqs' = [reqs EXCEPT ![s].pc = "aput",
                                ![s].loc = <<[existingAssessment EXCEPT !.title = reqs[s].updates]>>]
                  /\ UNCHANGED created
         ELSE /\ created.assess < MaxNewAssessments
              /\ created' = [created EXCEPT !.assess = @ + 1]
              /\ reqs' = [reqs EXCEPT ![s].pc = "aadd",
                            ![s].loc = <<Assessment(NewAssessmentId(created.assess + 1),
                                                    reqs[s].id, reqs[s].updates)>>]
  /\ UNCHANGED <<tables, dataCache, jobs, pagination, rest>>

\* POST /assessments/:jobId: db.assessments.put(updatedAssessment) has resolved.
AssessmentPut(s) ==
  /\ reqs[s].pc = "aput"
  /\ LET updatedAssessment == reqs[s].loc[1]
     IN  /\ tblAssess' = TablePut(tblAssess, updatedAssessment)
         /\ dataCache' = IF dataCache.loaded
                         THEN [dataCache EXCEPT !.assessments =
                                 CacheReplace(@, updatedAssessment.id, updatedAssessment)]
                         ELSE dataCache
  /\ reqs' = [reqs EXCEPT ![s].pc = "resp", ![s].result = "ok", ![s].loc = <<>>]
  /\ UNCHANGED <<tblJobs, tblCands, tblTimeline, jobs, pagination, rest, created>>

\* POST /assessments/:jobId: db.assessments.add(newAssessment) has resolved.
AssessmentAdd(s) ==
  /\ reqs[s].pc = "aadd"
  /\ tblAssess' = tblAssess \cup {reqs[s].loc[1]}
  /\ dataCache' = IF dataCache.loaded
                  THEN [dataCache EXCEPT !.assessments = Append(@, reqs[s].loc[1])]
                  ELSE dataCache
  /\ reqs' = [reqs EXCEPT ![s].pc = "resp", ![s].result = "ok", ![s].loc = <<>>]
  /\ UNCHANGED <<tblJobs, tblCands, tblTimeline, jobs, pagination, rest, created>>

\* A faulty handler: the updates are computed with no lookup of the job.
ReorderReadNoLookup(s) ==
  /\ reqs[s].pc = "toArray"
  /\ reqs' = [reqs EXCEPT ![s].pc = "bulkPut",
                          ![s].loc = ReorderUpdates(ToArray(tblJobs), reqs[s].id,
                                                    reqs[s].fromOrder, reqs[s].toOrder)]
  /\ UNCHANGED <<tables, dataCache, jobs, pagination, rest, created>>

\* POST /jobs/:id/reorder: db.jobs.toArray() has resolved; the job is looked up and
\* the updates are computed from the request's fromOrder and toOrder.
ReorderRead(s) ==
  /\ reqs[s].pc = "toArray"
  /\ LET arr == ToArray(tblJobs)
     IN  reqs' = [reqs EXCEPT ![s] =
           IF FindIndex(arr, reqs[s].id) = 0
           THEN [reqs[s] EXCEPT !.pc = "resp", !.result = "notfound"]
           ELSE [reqs[s] EXCEPT !.pc = "bulkPut",
                   !.loc = ReorderUpdates(arr, reqs[s].id, reqs[s].fromOrder, reqs[s].toOrder)]]
  /\ UNCHANGED <<tables, dataCache, jobs, pagination, rest, created>>

\* POST /jobs/:id/reorder: db.jobs.bulkPut(updates) has resolved; with a cache, the
\* handler awaits db.jobs.toArray() to assign it to the jobs of that cache object.
ReorderBulkPut(s) ==
  /\ reqs[s].pc = "bulkPut"
  /\ tblJobs' = TableBulkPut(tblJobs, reqs[s].loc)
  /\ reqs' = [reqs EXCEPT ![s] =
       IF dataCache.loaded
       THEN [reqs[s] EXCEPT !.pc = "reload", !.loc = <<>>, !.cacheGen = dataCache.gen]
       ELSE [reqs[s] EXCEPT !.pc = "resp", !.result = "ok", !.loc = <<>>]]
  /\ UNCHANGED <<tblCands, tblAssess, tblTimeline, dataCache, jobs, pagination, rest, created>>

\* POST /jobs/:id/reorder: dataCache.jobs = await db.jobs.toArray() assigns to the
\* object dataCache named before the await.
ReorderReload(s) ==
  /\ reqs[s].pc = "reload"
  /\ dataCache' = IF dataCache.gen = reqs[s].cacheGen
                  THEN [dataCache EXCEPT !.jobs = ToArray(tblJobs)]
                  ELSE dataCache
  /\ reqs' = [reqs EXCEPT ![s].pc = "resp", ![s].result = "ok", ![s].cacheGen = 0]
  /\ UNCHANGED <<tables, jobs, pagination, rest, created>>

\* ------------------------------------------------- the response arrives
\* A faulty rollback: the list shown is kept.
RollbackKeep(r) == jobs

\* setJobs(jobs) in the error branch: jobs is the list of the callback's closure.
Rollback(r) == r.snap

\* How the promise of the callback that sent request r settles: handleArchive and
\* handleUnarchive throw in their catch, every other caller's catch shows a toast.
Settled(r) == IF r.op = "archive" /\ r.result # "ok" THEN "rejected" ELSE "fulfilled"

\* The slot of an answered request: free, with the settlement of its callback.
Done(r) == [NoReq EXCEPT !.settled = Settled(r)]

\* ApiClient.request returns { data } or { error }; the caller's continuation runs.
Respond(s) ==
  /\ reqs[s].pc = "resp"
  /\ LET r == reqs[s]
     IN  CASE r.op = "fetch" ->
                \* fetchJobs: setJobs(result.data.data); setPagination(...)
                /\ jobs' = r.data
                /\ pagination' = r.meta
                /\ reqs' = [reqs EXCEPT ![s] = Done(r)]
           [] r.op \in {"drag", "archive"} ->
                \* handleDragEnd, handleArchive: setJobs(the closure's jobs) on an error
                /\ jobs' = IF r.result # "ok" THEN Rollback(r) ELSE jobs
                /\ pagination' = pagination
                /\ reqs' = [reqs EXCEPT ![s] = Done(r)]
           [] r.op = "save" ->
                \* handleJobSave: fetchJobs() after a success
                /\ jobs' = jobs
                /\ pagination' = pagination
                /\ reqs' = [reqs EXCEPT ![s] =
                     IF r.result = "ok"
                     THEN CallLoadData([NoReq EXCEPT !.kind = "getJobs", !.op = "fetch"])
                     ELSE Done(r)]
           [] OTHER ->
                /\ jobs' = jobs
                /\ pagination' = pagination
                /\ reqs' = [reqs EXCEPT ![s] = Done(r)]
  /\ UNCHANGED <<tables, dataCache, rest, created>>

\* ------------------------------------------------------------- seeding
\* initializeDatabase(): seedDatabase() when db.jobs.count() is 0, else nothing
\* (every stored job has a jobNumber).
InitializeDatabase ==
  /\ seedPc = "idle"
  /\ tblJobs = {} => seedGen < MaxSeeds /\ sent < MaxRequests
  /\ seedPc' = IF tblJobs = {} THEN "clear" ELSE "idle"
  /\ sent' = IF tblJobs = {} THEN sent + 1 ELSE sent
  /\ UNCHANGED <<tables, dataCache, reqs, jobs, pagination, seedGen, created>>

\* clearAndReseedDatabase(): seedDatabase().
ClearAndReseedDatabase ==
  /\ seedPc = "idle"
  /\ seedGen < MaxSeeds
  /\ sent < MaxRequests /\ sent' = sent + 1
  /\ seedPc' = "clear"
  /\ UNCHANGED <<tables, dataCache, reqs, jobs, pagination, seedGen, created>>

\* seedDatabase: the tables are cleared.
SeedClear ==
  /\ seedPc = "clear"
  /\ tblJobs' = {} /\ tblCands' = {} /\ tblAssess' = {} /\ tblTimeline' = {}
  /\ seedPc' = "jobs" /\ seedGen' = seedGen + 1
  /\ UNCHANGED <<dataCache, reqs, jobs, pagination, created, sent>>

\* seedDatabase: db.jobs.bulkAdd(jobs).
SeedJobsAdd ==
  /\ seedPc = "jobs"
  /\ tblJobs' = tblJobs \cup SeedJobs(seedGen)
  /\ seedPc' = "candidates"
  /\ UNCHANGED <<tblCands, tblAssess, tblTimeline, dataCache, reqs, jobs, pagination,
                 seedGen, created, sent>>

\* seedDatabase: db.candidates.bulkAdd(candidates).
SeedCandidatesAdd ==
  /\ seedPc = "candidates"
  /\ tblCands' = tblCands \cup SeedCandidates(seedGen)
  /\ seedPc' = "assessments"
  /\ UNCHANGED <<tblJobs, tblAssess, tblTimeline, dataCache, reqs, jobs, pagination,
                 seedGen, created, sent>>

\* seedDatabase: db.assessments.bulkAdd(assessments).
SeedAssessmentsAdd ==
  /\ seedPc = "assessments"
  /\ tblAssess' = tblAssess \cup SeedAssessments(seedGen)
  /\ seedPc' = "timeline"
  /\ UNCHANGED <<tblJobs, tblCands, tblTimeline, dataCache, reqs, jobs, pagination,
                 seedGen, created, sent>>

\* generateTimeline: createTimelineEntry of the candidate's application has
\* resolved; Math.random() decides whether a note follows. After the last entry
\* seedDatabase returns and nothing of the mock server is told.
SeedTimelineAdd ==
  /\ seedPc = "timeline"
  /\ tblTimeline' = tblTimeline \cup {SeedApplicationEntry(seedGen)}
  /\ \E note \in BOOLEAN : seedPc' = IF note THEN "note" ELSE "idle"
  /\ UNCHANGED <<tblJobs, tblCands, tblAssess, dataCache, reqs, jobs, pagination,
                 seedGen, created, sent>>

\* generateTimeline: createTimelineEntry of the note has resolved.
SeedNoteAdd ==
  /\ seedPc = "note"
  /\ tblTimeline' = tblTimeline \cup {SeedNoteEntry(seedGen)}
  /\ seedPc' = "idle"
  /\ UNCHANGED <<tblJobs, tblCands, tblAssess, dataCache, reqs, jobs, pagination,
                 seedGen, created, sent>>

\* ------------------------------------------------------ specifications
\* The jobs an assessment is saved for (the job picked in AssessmentsBoard).
AssessmentJobs == {j \in Ids(tblJobs) : \E g \in 1..MaxSeeds : j \in {(g - 1) * NumSeedJobs + 1,
                                                                     (g - 1) * NumSeedJobs + 2}}

\* A user action: one request is sent.
Issue ==
  \/ \E s \in Slots, qs \in {"", "active"}, qo \in {"asc", "desc"} : FetchJobs(s, qs, qo)
  \/ \E s \in Slots, a \in Ids(Range(jobs)), o \in Ids(Range(jobs)) : HandleDragEnd(s, a, o)
  \/ \E s \in Slots, j \in Ids(Range(jobs)) : HandleArchive(s, j)
  \/ \E s \in Slots, st \in Statuses : HandleJobCreate(s, st)
  \/ \E s \in Slots, j \in Ids(Range(jobs)), st \in Statuses : HandleJobEdit(s, j, st)
  \/ \E s \in Slots, c \in Ids(tblCands), sg \in Stages : UpdateCandidate(s, c, sg)
  \/ \E s \in Slots, j \in AssessmentJobs, t \in Titles : SaveAssessment(s, j, t)

\* A step of a handler in flight, or the arrival of its response.
Handle ==
  \/ \E s \in Slots : LoadRead(s)
  \/ \E s \in Slots : LoadDone(s)
  \/ \E s \in Slots : SimulateFail(s)
  \/ \E s \in Slots : SimulatePass(s)
  \/ \E s \in Slots : JobAdd(s)
  \/ \E s \in Slots : RecordGet(s)
  \/ \E s \in Slots : JobPut(s)
  \/ \E s \in Slots : CandidatePut(s)
  \/ \E s \in Slots : AssessmentFirst(s)
  \/ \E s \in Slots : AssessmentPut(s)
  \/ \E s \in Slots : AssessmentAdd(s)
  \/ \E s \in Slots : ReorderRead(s)
  \/ \E s \in Slots : ReorderBulkPut(s)
  \/ \E s \in Slots : ReorderReload(s)
  \/ \E s \in Slots : Respond(s)

Seed ==
  \/ InitializeDatabase
  \/ ClearAndReseedDatabase
  \/ SeedClear
  \/ SeedJobsAdd
  \/ SeedCandidatesAdd
  \/ SeedAssessmentsAdd
  \/ SeedTimelineAdd
  \/ SeedNoteAdd

\* The first session: the app seeds the empty database while its pages send
\* requests, and requests overlap.
Next == Issue \/ Handle \/ Seed
Spec == Init /\ [][Next]_vars

\* A later session on the seeded database, requests overlapping.
NextOps == Issue \/ Handle
SpecOps == InitSeeded /\ [][NextOps]_vars

\* A later session on the seeded database, one operation at a time: a request is
\* sent only when the one before has been answered.
NextSeq == (Quiescent /\ Issue) \/ Handle
SpecSeq == InitSeeded /\ [][NextSeq]_vars

\* One board operation at a time, with the event loop running every continuation
\* that is ready: the timer of the latency fires, the promises of the tables and
\* of fetch settle, and the callback that awaits them goes on.
NextLive == (Quiescent /\ sent < MaxLiveRequests /\ Issue) \/ Handle
SpecLive == InitSeeded /\ [][NextLive]_vars /\ WF_vars(Handle)

\* The orders a reorder request may carry: the ranks of the table and one value
\* on either side of them.
RequestOrders == 0..(NumSeedJobs + 1)

\* The reorder endpoint with any job id and any pair of orders, beside the board's
\* fetches and drags, one request at a time.
IssueApi ==
  \/ \E s \in Slots : FetchJobs(s, "", "asc")
  \/ \E s \in Slots, a \in Ids(Range(jobs)), o \in Ids(Range(jobs)) : HandleDragEnd(s, a, o)
  \/ \E s \in Slots, j \in 1..(NumSeedJobs + 1), from \in RequestOrders, to \in RequestOrders :
        ReorderJob(s, j, from, to)

NextApi ==
  \/ Quiescent /\ IssueApi
  \/ \E s \in Slots : LoadRead(s)
  \/ \E s \in Slots : LoadDone(s)
  \/ \E s \in Slots : SimulateFail(s)
  \/ \E s \in Slots : SimulatePass(s)
  \/ \E s \in Slots : ReorderRead(s)
  \/ \E s \in Slots : ReorderBulkPut(s)
  \/ \E s \in Slots : ReorderReload(s)
  \/ \E s \in Slots : Respond(s)
SpecApi == InitSeeded /\ [][NextApi]_vars

\* The tables a query can meet: the jobs in any status, their ranks not in the
\* order of their ids, candidates in any stage, each with its application entry
\* and the second with a note; the cache is null or holds the tables.
InitQuery ==
  /\ \E st \in [1..NumSeedJobs -> Statuses] :
       tblJobs = {Job(i, (i % NumSeedJobs) + 1, st[i]) : i \in 1..NumSeedJobs}
  /\ \E sg \in [1..NumQueryCandidates -> Stages] :
       tblCands = {Candidate(i, sg[i]) : i \in 1..NumQueryCandidates}
  /\ tblAssess = SeedAssessments(1)
  /\ tblTimeline = {SeedApplicationEntry(g) : g \in 1..NumQueryCandidates}
                     \cup {SeedNoteEntry(2)}
  /\ dataCache \in {NullCache,
                     [loaded |-> TRUE, gen |-> 1, jobs |-> ToArray(tblJobs),
                      candidates |-> ToArray(tblCands), assessments |-> ToArray(tblAssess),
                      timeline |-> ToArray(tblTimeline)]}
  /\ reqs = [s \in Slots |-> NoReq]
  /\ jobs = <<>> /\ pagination = InitialPagination
  /\ seedPc = "idle" /\ seedGen = 1
  /\ created = [jobs |-> 0, assess |-> 0]
  /\ sent = 0

\* The parameters of the queries sent.
Searches == {<<>>, <<"a">>, <<"B">>, <<"a", "b">>}
Pages == -1..4
PageSizes == {-1, 0, 1, 2, DefaultPageSize}

Query ==
  \/ \E s \in Slots, search \in Searches, qs \in Statuses \cup {""}, qo \in {"asc", "desc"},
        page \in Pages : FetchJobsAt(s, search, qs, qo, page)
  \/ \E s \in Slots, search \in Searches, qs \in Statuses \cup {""}, qo \in {"asc", "desc"},
        page \in Pages, pageSize \in PageSizes : GetJobs(s, search, qs, qo, page, pageSize)
  \/ \E s \in Slots, search \in Searches, stage \in Stages \cup {""},
        page \in Pages, pageSize \in PageSizes : GetCandidates(s, search, stage, page, pageSize)
  \/ \E s \in Slots, jobNumber \in 1..(NumSeedJobs + 1) : GetJobByNumber(s, jobNumber)
  \/ \E s \in Slots, c \in 1..(NumQueryCandidates + 1) : GetCandidateTimeline(s, c)
  \/ \E s \in Slots, j \in 1..NumSeedJobs : GetAssessment(s, j)

\* Queries with any parameters over any tables, one at a time.
NextQuery ==
  \/ Quiescent /\ Query
  \/ \E s \in Slots : LoadRead(s)
  \/ \E s \in Slots : LoadDone(s)
  \/ \E s \in Slots : Respond(s)
SpecQuery == InitQuery /\ [][NextQuery]_vars

\* The ids a payload may name: none (0), the id of a stored record, a new one.
PayloadIds == 0..(NumSeedJobs + 1)

\* The write endpoints with any payload, one request at a time, with the cache
\* null or loaded by a fetch of the board.
IssuePut ==
  \/ \E s \in Slots : FetchJobs(s, "", "asc")
  \/ \E s \in Slots, j \in Ids(tblJobs), st \in Statuses, n \in PayloadIds :
        UpdateJobWith(s, j, st, n)
  \/ \E s \in Slots, c \in Ids(tblCands), sg \in Stages, n \in PayloadIds :
        UpdateCandidateWith(s, c, sg, n)
  \/ \E s \in Slots, j \in Ids(tblJobs), from \in 1..NumSeedJobs, to \in 1..NumSeedJobs :
        ReorderJob(s, j, from, to)
  \/ \E s \in Slots, j \in AssessmentJobs, t \in Titles : SaveAssessment(s, j, t)

NextPut ==
  \/ Quiescent /\ IssuePut
  \/ \E s \in Slots : LoadRead(s)
  \/ \E s \in Slots : LoadDone(s)
  \/ \E s \in Slots : SimulateFail(s)
  \/ \E s \in Slots : SimulatePass(s)
  \/ \E s \in Slots : RecordGet(s)
  \/ \E s \in Slots : JobPut(s)
  \/ \E s \in Slots : CandidatePut(s)
  \/ \E s \in Slots : AssessmentFirst(s)
  \/ \E s \in Slots : AssessmentPut(s)
  \/ \E s \in Slots : AssessmentAdd(s)
  \/ \E s \in Slots : ReorderRead(s)
  \/ \E s \in Slots : ReorderBulkPut(s)
  \/ \E s \in Slots : ReorderReload(s)
  \/ \E s \in Slots : Respond(s)
SpecPut == InitSeeded /\ [][NextPut]_vars

\* The queries again, with reads of the tables that may reject.
NextRead ==
  \/ Quiescent /\ Query
  \/ \E s \in Slots : LoadRead(s)
  \/ \E s \in Slots : LoadFail(s)
  \/ \E s \in Slots : LoadDone(s)
  \/ \E s \in Slots : Respond(s)
SpecRead == InitQuery /\ [][NextRead]_vars

\* ----------------------------------------------------------- properties
\* Dense Rank: the order values of the N records are exactly 1..N, each once.
DenseRank(tbl) ==
  \A k \in 1..Cardinality(tbl) : Cardinality({j \in tbl : j.order = k}) = 1

\* The cached collection holds exactly the records of the table, each once.
SameRecords(seq, tbl) == Range(seq) = tbl /\ Len(seq) = Cardinality(tbl)

Coherent ==
  /\ SameRecords(dataCache.jobs, tblJobs)
  /\ SameRecords(dataCache.candidates, tblCands)
  /\ SameRecords(dataCache.assessments, tblAssess)

\* The step in which the reorder handler of slot s writes its updates.
ReorderCommits(s) == reqs[s].pc = "bulkPut" /\ reqs'[s].pc # "bulkPut"

\* The order stored for the job with this id.
StoredOrder(tbl, id) == (CHOOSE j \in tbl : j.id = id).order

\* C1: with the board's actions sent one at a time, the stored jobs have the
\* order values 1..N, each once, in every state.
C1_DenseRankStored == DenseRank(tblJobs)

\* C2: a reorder written to a table whose orders are 1..N, for the job whose
\* stored order is fromOrder, to a toOrder in 1..N other than fromOrder, leaves
\* the orders 1..N, each once.
C2_ReorderPreservesDenseRank ==
  [][\A s \in Slots :
       (/\ ReorderCommits(s)
        /\ DenseRank(tblJobs)
        /\ reqs[s].id \in Ids(tblJobs)
        /\ StoredOrder(tblJobs, reqs[s].id) = reqs[s].fromOrder
        /\ reqs[s].toOrder \in 1..Cardinality(tblJobs)
        /\ reqs[s].toOrder # reqs[s].fromOrder)
       => DenseRank(tblJobs')]_vars

\* C2, the case reached: a reorder of the job stored at 1 to 3 has been written
\* to a table of at least three jobs, and the orders are 1..N.
C2_Witness ==
  \E s \in Slots :
    /\ reqs[s].kind = "reorderJob" /\ reqs[s].result = "ok"
    /\ reqs[s].fromOrder = 1 /\ reqs[s].toOrder = 3
    /\ tblJobs = {Job(1, 3, "active"), Job(2, 1, "active"), Job(3, 2, "active")}

\* C3: a reorder written for the job stored at fromOrder gives that job toOrder;
\* moving down, every other job with fromOrder < order <= toOrder gets order - 1;
\* moving up, every other job with toOrder <= order < fromOrder gets order + 1.
C3_RankShift ==
  [][\A s \in Slots :
       (ReorderCommits(s) /\ StoredOrder(tblJobs, reqs[s].id) = reqs[s].fromOrder)
       => LET from == reqs[s].fromOrder
              to == reqs[s].toOrder
          IN  \A j \in tblJobs :
                LET after == StoredOrder(tblJobs', j.id)
                IN  /\ j.id = reqs[s].id => after = to
                    /\ (j.id # reqs[s].id /\ from < to /\ from < j.order /\ j.order <= to)
                         => after = j.order - 1
                    /\ (j.id # reqs[s].id /\ from > to /\ to <= j.order /\ j.order < from)
                         => after = j.order + 1]_vars

\* C3, the case reached: the job stored at 3 has been moved up to 1 in a table of
\* four jobs; the jobs that were at 1 and 2 are at 2 and 3, the job at 4 is where
\* it was.
C3_Witness ==
  \E s \in Slots :
    /\ reqs[s].kind = "reorderJob" /\ reqs[s].result = "ok"
    /\ reqs[s].fromOrder = 3 /\ reqs[s].toOrder = 1
    /\ {<<j.id, j.order>> : j \in tblJobs}
         = {<<1, 2>>, <<2, 3>>, <<3, 1>>, <<NewJobId(1), 4>>}

\* The kinds of request whose handler starts with simulateWriteOperation().
WriteKinds == {"createJob", "updateJob", "reorderJob", "updateCandidate", "saveAssessment"}

\* The jobs the next loadData() returns.
LoadedJobs == IF dataCache.loaded THEN dataCache.jobs ELSE ToArray(tblJobs)

\* C4: the closure's list kept when a drag or an archival is sent is the list
\* shown before the optimistic change, it stays as it is while the request is in
\* flight, and when the response is an error the list shown is that list again.
C4_RollbackRestores ==
  [][\A s \in Slots :
       /\ (reqs[s].kind = "none" /\ reqs'[s].op \in {"drag", "archive"})
            => reqs'[s].snap = jobs /\ jobs' # jobs
       /\ (reqs[s].op \in {"drag", "archive"} /\ reqs'[s].kind # "none")
            => reqs'[s].snap = reqs[s].snap
       /\ (reqs[s].op \in {"drag", "archive"} /\ reqs[s].result # "ok" /\ reqs'[s].kind = "none")
            => jobs' = reqs[s].snap]_vars

\* C4, the case reached: the response of a drag is a failure, and the list shown
\* is not the list of before the drag.
C4_Witness ==
  \E s \in Slots :
    /\ reqs[s].op = "drag" /\ reqs[s].pc = "resp" /\ reqs[s].result = "simerr"
    /\ Len(reqs[s].snap) = NumSeedJobs
    /\ jobs # reqs[s].snap

\* C5: every write handler starts with the failure draw, and the step that draws
\* a failure leaves the tables and the cache as they are, so that a job query
\* returns what it returned before.
C5_FailureWritesNothing ==
  [][\A s \in Slots :
       /\ (reqs[s].kind = "none" /\ reqs'[s].kind \in WriteKinds)
            => reqs'[s].pc = "sim" /\ tables' = tables /\ dataCache' = dataCache
       /\ (reqs[s].pc # "sim" /\ reqs'[s].pc = "sim") => reqs[s].kind = "none"
       /\ (reqs[s].result # "simerr" /\ reqs'[s].result = "simerr")
            => /\ reqs[s].pc = "sim"
               /\ tables' = tables /\ dataCache' = dataCache
               /\ \A qs \in {""} \cup Statuses, qo \in {"asc", "desc"} :
                    QueryJobs(LoadedJobs', qs, qo) = QueryJobs(LoadedJobs, qs, qo)]_vars

\* C5, the case reached: a reorder sent with the cache loaded has drawn a failure.
C5_Witness ==
  \E s \in Slots :
    /\ reqs[s].kind = "reorderJob" /\ reqs[s].result = "simerr"
    /\ dataCache.loaded

\* C6: in no state does a table hold a write that the loaded cache does not.
C6_AllOrNothing == dataCache.loaded => Coherent

\* C7: a write confirmed with the cache loaded and no other handler in flight
\* leaves the cached jobs, candidates and assessments equal to the tables.
C7_CacheCoherence ==
  [][\A s \in Slots :
       (/\ reqs[s].kind \in WriteKinds
        /\ reqs[s].pc # "resp" /\ reqs'[s].pc = "resp" /\ reqs'[s].result = "ok"
        /\ dataCache.loaded
        /\ \A t \in Slots \ {s} : Free(t))
       => Coherent']_vars

\* C8: when a reseed run with the cache loaded completes, the cache is null.
C8_ReseedInvalidates ==
  [][(seedPc # "idle" /\ seedPc' = "idle" /\ seedGen > 1 /\ dataCache.loaded)
       => ~dataCache'.loaded]_vars

\* C9: after the initial seeding, with no request in flight, a loaded cache holds
\* the records of the tables.
C9_LoadIsSafe ==
  (Quiescent /\ seedGen <= 1 /\ dataCache.loaded)
    => /\ Range(dataCache.jobs) = tblJobs
       /\ Range(dataCache.candidates) = tblCands
       /\ Range(dataCache.assessments) = tblAssess

\* C10: the step that writes one record with the cache loaded leaves the record
\* in the cached collection, at one place, with no other entry of its id.
C10_ReplaceOrAppend ==
  [][\A s \in Slots :
       (reqs[s].pc \in {"add", "put", "aput", "aadd"} /\ reqs'[s].pc = "resp" /\ dataCache.loaded)
       => LET rec == reqs[s].loc[1]
              coll == CASE reqs[s].kind \in {"createJob", "updateJob"} -> dataCache'.jobs
                        [] reqs[s].kind = "updateCandidate" -> dataCache'.candidates
                        [] OTHER -> dataCache'.assessments
          IN  /\ Cardinality({i \in DOMAIN coll : coll[i].id = rec.id}) = 1
              /\ \E i \in DOMAIN coll : coll[i] = rec]_vars

\* ------------------------------------------------------------- queries
\* The answered list queries, and what a query ran over: in SpecQuery the cache
\* at the response is the data the handler read.
Answered(s) == reqs[s].kind \in {"getJobs", "getCandidates"} /\ reqs[s].pc = "resp"

\* The cached records that pass the search and the filter of request r.
Matched(r) ==
  IF r.kind = "getJobs"
  THEN {j \in Range(dataCache.jobs) :
          JobMatches(j, r.qSearch) /\ (r.qStatus # "" => j.status = r.qStatus)}
  ELSE {c \in Range(dataCache.candidates) :
          CandidateMatches(c, r.qSearch) /\ (r.qStatus # "" => c.stage = r.qStatus)}

\* The sorted, filtered sequence of request r, and the page p of it the handler answers.
FullList(r) ==
  IF r.kind = "getJobs"
  THEN JobsMatching(dataCache.jobs, r.qSearch, r.qStatus, r.qOrder)
  ELSE CandidatesMatching(dataCache.candidates, r.qSearch, r.qStatus)

PageOf(r, p) ==
  IF r.kind = "getJobs"
  THEN JobsResponse(dataCache.jobs, r.qSearch, r.qStatus, r.qOrder, p, r.qPageSize).data
  ELSE CandidatesResponse(dataCache.candidates, r.qSearch, r.qStatus, p, r.qPageSize).data

RECURSIVE ConcatPages(_, _)
\* The pages 1..n of request r, one after the other.
ConcatPages(r, n) == IF n = 0 THEN <<>> ELSE ConcatPages(r, n - 1) \o PageOf(r, n)

\* C11: a job or candidate query with page >= 1 and pageSize >= 1 answers total =
\* the number of records that pass search and filter, totalPages = the ceiling of
\* total / pageSize (0 exactly when total is 0), hasNext = (page * pageSize <
\* total), false on the last page, and hasPrev = (page > 1).
C11_PaginationMetadata ==
  \A s \in Slots :
    LET r == reqs[s]
        m == r.meta
    IN  (Answered(s) /\ r.qPage >= 1 /\ r.qPageSize >= 1)
        => /\ r.result = "ok"
           /\ m.total = Cardinality(Matched(r))
           /\ m.totalPages \in Nat
           /\ m.totalPages * r.qPageSize >= m.total
           /\ (m.totalPages - 1) * r.qPageSize < m.total
           /\ (m.totalPages = 0) <=> (m.total = 0)
           /\ m.hasNext = (r.qPage * r.qPageSize < m.total)
           /\ (r.qPage = m.totalPages) => ~m.hasNext
           /\ m.hasPrev = (r.qPage > 1)

\* C11 happens: the full last page of a query of two pages is answered.
C11_Witness ==
  \E s \in Slots :
    /\ Answered(s) /\ reqs[s].qPageSize = 1 /\ reqs[s].qPage = 2
    /\ reqs[s].meta.total = 2 /\ reqs[s].meta.totalPages = 2
    /\ ~reqs[s].meta.hasNext /\ reqs[s].meta.hasPrev

\* C12: the items of page p are the elements at the 0-based indices
\* [(page-1)*pageSize, page*pageSize) of the sorted, filtered sequence; the pages
\* 1..totalPages one after the other are that sequence, every record once and in
\* order; no page has more than pageSize items; a page beyond totalPages is
\* answered empty, not with an error.
C12_PageSlicing ==
  \A s \in Slots :
    LET r == reqs[s]
        full == FullList(r)
        first == (r.qPage - 1) * r.qPageSize
        n == IF Len(full) - first <= 0 THEN 0
             ELSE IF Len(full) - first < r.qPageSize THEN Len(full) - first
             ELSE r.qPageSize
    IN  (Answered(s) /\ r.qPage >= 1 /\ r.qPageSize >= 1)
        => /\ r.data = [k \in 1..n |-> full[first + k]]
           /\ Len(r.data) <= r.qPageSize
           /\ ConcatPages(r, r.meta.totalPages) = full
           /\ Range(full) = Matched(r) /\ Len(full) = Cardinality(Matched(r))
           /\ (r.qPage > r.meta.totalPages) => (r.data = <<>> /\ r.result = "ok")

\* C12 happens: the short last page of three records in pages of two is answered.
C12_Witness ==
  \E s \in Slots :
    /\ Answered(s) /\ reqs[s].qPageSize = 2 /\ reqs[s].qPage = 2
    /\ reqs[s].meta.total = 3 /\ Len(reqs[s].data) = 1
    /\ reqs[s].data[1] = FullList(reqs[s])[3]

\* C13: a query with pageSize <= 0 or page <= 0 fails with InvalidArgument and
\* returns no page.
C13_InvalidArgument ==
  \A s \in Slots :
    (Answered(s) /\ (reqs[s].qPage <= 0 \/ reqs[s].qPageSize <= 0))
    => (reqs[s].result # "ok" /\ reqs[s].data = <<>>)

\* C14: the records matched with a search and a filter are those matched with
\* the search alone and with the filter alone; an absent filter or an empty search
\* filters nothing.
C14_FilterSearchCompose ==
  \A s \in Slots :
    LET r == reqs[s]
        searchOnly == FullList([r EXCEPT !.qStatus = ""])
        filterOnly == FullList([r EXCEPT !.qSearch = <<>>])
        neither == FullList([r EXCEPT !.qSearch = <<>>, !.qStatus = ""])
        cached == IF r.kind = "getJobs" THEN dataCache.jobs ELSE dataCache.candidates
    IN  Answered(s)
        => /\ Range(FullList(r)) = Range(searchOnly) \cap Range(filterOnly)
           /\ r.meta.total = Cardinality(Range(searchOnly) \cap Range(filterOnly))
           /\ Range(neither) = Range(cached) /\ Len(neither) = Len(cached)
           /\ (r.qStatus = "" => FullList(r) = searchOnly)
           /\ (r.qSearch = <<>> => FullList(r) = filterOnly)

\* C14 happens: a search and a filter that each keep a record the other drops.
C14_Witness ==
  \E s \in Slots :
    LET r == reqs[s]
        searchOnly == Range(FullList([r EXCEPT !.qStatus = ""]))
        filterOnly == Range(FullList([r EXCEPT !.qSearch = <<>>]))
    IN  /\ Answered(s) /\ r.kind = "getJobs" /\ r.qSearch # <<>> /\ r.qStatus # ""
        /\ searchOnly \ filterOnly # {} /\ filterOnly \ searchOnly # {}
        /\ r.meta.total >= 1

\* What a GET with the parameters of request r answers over the collections c.
AnswerOver(c, r) ==
  CASE r.kind = "getJobs" ->
         JobsResponse(c.jobs, r.qSearch, r.qStatus, r.qOrder, r.qPage, r.qPageSize)
    [] r.kind = "getCandidates" ->
         CandidatesResponse(c.candidates, r.qSearch, r.qStatus, r.qPage, r.qPageSize)
    [] r.kind = "getJob" -> [data |-> JobByNumber(c.jobs, r.id), pagination |-> r.meta]
    [] r.kind = "getTimeline" -> [data |-> TimelineOf(c.timeline, r.id), pagination |-> r.meta]
    [] OTHER -> [data |-> AssessmentOfJob(c.assessments, r.id), pagination |-> r.meta]

GetKinds == {"getJobs", "getJob", "getCandidates", "getTimeline", "getAssessment"}

C17_ReorderFrame ==
  [][\A s \in Slots :
       (ReorderCommits(s) /\ reqs[s].id \in Ids(tblJobs))
       => LET rankFrom == StoredOrder(tblJobs, reqs[s].id)
              rankTo == reqs[s].toOrder
              lo == IF rankFrom < rankTo THEN rankFrom ELSE rankTo
              hi == IF rankFrom < rankTo THEN rankTo ELSE rankFrom
          IN  /\ Ids(tblJobs') = Ids(tblJobs)
              /\ Cardinality(tblJobs') = Cardinality(tblJobs)
              /\ \A j \in tblJobs :
                   /\ (j.order < lo \/ j.order > hi) => StoredOrder(tblJobs', j.id) = j.order
                   /\ [j EXCEPT !.order = StoredOrder(tblJobs', j.id)] \in tblJobs'
              /\ \A i \in DOMAIN reqs[s].loc :
                   /\ reqs[s].loc[i].id \in Ids(tblJobs)
                   /\ StoredOrder(tblJobs, reqs[s].loc[i].id) # reqs[s].loc[i].order
              /\ tblCands' = tblCands /\ tblAssess' = tblAssess]_vars

\* C16: a reorder whose fromOrder and toOrder are both the stored rank of the job
\* writes nothing and leaves every stored rank as it is; and no reorder is sent
\* for a drop that leaves the list shown as it is (a card dropped on itself).
C16_SameRankNoOp ==
  [][/\ \A s \in Slots :
          (/\ reqs[s].kind = "reorderJob" /\ reqs[s].pc \in {"sim", "toArray", "bulkPut"}
           /\ reqs[s].fromOrder = reqs[s].toOrder
           /\ reqs[s].id \in Ids(tblJobs)
           /\ StoredOrder(tblJobs, reqs[s].id) = reqs[s].fromOrder)
          => /\ tblJobs' = tblJobs
             /\ reqs[s].pc = "bulkPut" => reqs[s].loc = <<>>
     /\ \A s \in Slots :
          (reqs[s].kind = "none" /\ reqs'[s].op = "drag")
          => (jobs' # jobs /\ reqs'[s].id \in Ids(Range(jobs)))]_vars

\* C16 happens: a reorder of a job from its stored rank to the same rank has been
\* confirmed.
C16_Witness ==
  \E s \in Slots :
    /\ reqs[s].kind = "reorderJob" /\ reqs[s].pc = "resp" /\ reqs[s].result = "ok"
    /\ reqs[s].fromOrder = reqs[s].toOrder
    /\ reqs[s].id \in Ids(tblJobs)
    /\ StoredOrder(tblJobs, reqs[s].id) = reqs[s].fromOrder
    /\ DenseRank(tblJobs)

\* C20: a reorder that names a job id not in the table is answered with an error
\* and no step of it changes a record of a table or of the cache.
C20_UnknownJobRejected ==
  [][\A s \in Slots :
       (reqs[s].kind = "reorderJob" /\ reqs[s].id \notin Ids(tblJobs))
       => /\ tables' = tables
          /\ dataCache' = dataCache
          /\ reqs[s].pc # "bulkPut"
          /\ reqs'[s].pc = "resp" => reqs'[s].result \in {"notfound", "simerr"}]_vars

\* C20 happens: the handler has looked the id up, found no job and answered 404.
C20_Witness ==
  \E s \in Slots :
    /\ reqs[s].kind = "reorderJob" /\ reqs[s].pc = "resp" /\ reqs[s].result = "notfound"
    /\ reqs[s].id \notin Ids(tblJobs)
    /\ tblJobs = SeedJobs(1)

\* The id and the rank of every record of a table, and of every entry of a list.
RanksOf(tbl) == {<<j.id, j.order>> : j \in tbl}
RanksIn(seq) == [i \in DOMAIN seq |-> <<seq[i].id, seq[i].order>>]

C18_CreateAssignsNextRank ==
  [][\A s \in Slots :
       (reqs[s].kind = "createJob" /\ reqs[s].pc = "add" /\ reqs'[s].pc = "resp")
       => /\ reqs[s].loc[1] \in tblJobs'
          /\ reqs[s].loc[1].order = Cardinality(tblJobs) + 1]_vars

\* C21: a reorder whose fromOrder or toOrder is outside 1..N is answered with an
\* error and no step of it changes a record of a table or of the cache.
C21_OutOfRangeRejected ==
  [][\A s \in Slots :
       (/\ reqs[s].kind = "reorderJob"
        /\ \/ reqs[s].fromOrder \notin 1..Cardinality(tblJobs)
           \/ reqs[s].toOrder \notin 1..Cardinality(tblJobs))
       => /\ tables' = tables
          /\ dataCache' = dataCache
          /\ reqs'[s].pc = "resp" => reqs'[s].result # "ok"]_vars

\* C22: a failure of the channel reaches the caller as an error result only: the
\* promise of no callback that sent a mutating request is rejected.
C22_NoThrownFault ==
  [][\A s \in Slots :
       (/\ reqs[s].pc = "resp" /\ reqs[s].kind \in WriteKinds
        /\ reqs[s].result = "simerr" /\ reqs'[s].pc # "resp")
       => reqs'[s].settled # "rejected"]_vars

\* The positions a reorder sent by a drag goes through, and the positions that
\* follow each: the simulator, the read, the write, the cache reload, the response.
DragFollows(pc, result) ==
  CASE pc = "sim" -> {<<"toArray", "none">>, <<"resp", "simerr">>}
    [] pc = "toArray" -> {<<"bulkPut", "none">>, <<"resp", "notfound">>}
    [] pc = "bulkPut" -> {<<"reload", "none">>, <<"resp", "ok">>}
    [] pc = "reload" -> {<<"resp", "ok">>}
    [] OTHER -> {}

Terminal == {"ok", "simerr", "notfound"}

\* C24: every write that was sent is answered, with a confirmation or with an
\* error, and the answer is taken by the callback that sent it: no write stays
\* before its answer or at its answer for ever.
C24_WritesComplete ==
  \A s \in Slots :
    /\ (reqs[s].kind \in WriteKinds /\ reqs[s].pc # "resp")
          ~> (reqs[s].kind \in WriteKinds /\ reqs[s].pc = "resp"
              /\ reqs[s].result \in Terminal)
    /\ (reqs[s].kind \in WriteKinds /\ reqs[s].pc = "resp")
          ~> (reqs[s].kind \notin WriteKinds)

\* C24 witness: a drag's reorder went through the simulator and the handler and
\* its answer, a confirmation, is about to be taken by handleDragEnd.
C24_Witness ==
  \E s \in Slots :
    /\ reqs[s].op = "drag" /\ reqs[s].pc = "resp" /\ reqs[s].result \in Terminal
    /\ reqs[s].cacheGen = 0 /\ dataCache.loaded
    /\ sent = MaxLiveRequests

\* C25: while the reorder of a drag is in flight, no other slot holds a reorder
\* of a drag or the update of an archival sent by the board.
C25_OneReorderInFlight ==
  \A s \in Slots, t \in Slots :
    (s # t /\ reqs[s].op = "drag") => reqs[t].op \notin {"drag", "archive"}

\* C26: a query is never at the failure simulator and its answer is a result:
\* with the cache or without, with reads of the tables that resolve or reject.
C26_ReadsNeverFailed ==
  \A s \in Slots :
    reqs[s].kind \in GetKinds
      => /\ reqs[s].pc \in {"loadRead", "loadDone", "resp"}
         /\ reqs[s].pc = "resp" => reqs[s].result = "ok"

\* C26 witness: a query of the jobs is answered with a result after the read of
\* the tables rejected: the cache is still null and the page is empty.
C26_Witness ==
  \E s \in Slots :
    /\ reqs[s].kind = "getJobs" /\ reqs[s].pc = "resp" /\ reqs[s].result = "ok"
    /\ ~dataCache.loaded /\ reqs[s].data = <<>> /\ reqs[s].meta.total = 0

\* C27: no step of an update of a job or of a candidate, of a reorder or of the
\* save of an assessment changes the ids stored in the jobs or in the candidates
\* table, nor the number of records of either.
C27_IdsImmutable ==
  [][/\ Ids(tblJobs') = Ids(tblJobs)
     /\ Cardinality(tblJobs') = Cardinality(tblJobs)
     /\ Ids(tblCands') = Ids(tblCands)
     /\ Cardinality(tblCands') = Cardinality(tblCands)]_vars

\* Every job of the list carries the order of its stored record.
OrdersAsStored(list, tbl) ==
  \A i \in DOMAIN list :
    list[i].id \in Ids(tbl) => list[i].order = StoredOrder(tbl, list[i].id)

\* C28: when a drag has shown the moved list, and when its reorder has been
\* confirmed and taken by the board, every job of the list shown carries the
\* order of its stored record.
C28_LocalOrdersAsStored ==
  [][\A s \in Slots :
       /\ (reqs[s].op # "drag" /\ reqs'[s].op = "drag" /\ OrdersAsStored(jobs, tblJobs))
            => OrdersAsStored(jobs', tblJobs')
       /\ (reqs[s].op = "drag" /\ reqs[s].pc = "resp" /\ reqs[s].result = "ok"
           /\ reqs'[s].kind = "none")
            => OrdersAsStored(jobs', tblJobs')]_vars

\* The ids of a list of records, in the order of the list.
IdSequence(list) == [i \in DOMAIN list |-> list[i].id]

\* The page a query of the jobs returns from the stored records, for a status and
\* a direction, at the page and page size of the board.
StoredPage(tbl, qs, qo) ==
  JobsResponse(ToArray(tbl), <<>>, qs, qo, pagination.page, pagination.pageSize).data

\* C29: when a drag's reorder has been confirmed and taken by the board, the ids
\* of the list shown are, in that order, the ids of the page a query of the jobs
\* sorted by order returns from the store, for the status and the direction the
\* board fetched with.
C29_ViewEqualsQuery ==
  [][\A s \in Slots :
       (/\ reqs[s].op = "drag" /\ reqs[s].pc = "resp" /\ reqs[s].result = "ok"
        /\ reqs'[s].kind = "none")
       => \E qs \in {"", "active", "archived"}, qo \in {"asc", "desc"} :
            IdSequence(jobs') = IdSequence(StoredPage(tblJobs', qs, qo))]_vars

\* The status the list shows for a job.
ShownStatus(list, id) == list[FindIndex(list, id)].status

\* C30: when a drag or an archival is answered with an error while an archival
\* sent after it is still in flight, the rollback leaves the status that the
\* later archival put in the list: it undoes the change of its own operation only.
C30_RollbackUndoesOwnChange ==
  [][\A s \in Slots, t \in Slots :
       (/\ s # t
        /\ reqs[s].op \in {"drag", "archive"} /\ reqs[s].pc = "resp" /\ reqs[s].result # "ok"
        /\ reqs'[s].kind = "none"
        /\ reqs[t].op = "archive" /\ reqs[t].id # reqs[s].id
        /\ ShownStatus(jobs, reqs[t].id) = reqs[t].updates)
       => ShownStatus(jobs', reqs[t].id) = reqs[t].updates]_vars

====
